---- MODULE Spec2Model ----
(***************************************************************************)
(* HopeCoach: the HTTP handler (api/chat.ts and its earlier version), the  *)
(* three versions of chat/respond in health_agent.ts (chat-completions     *)
(* over fetch, responses API over fetch, tool calling over the OpenAI      *)
(* client) and the tool dispatch loop.                                     *)
(*                                                                         *)
(* JavaScript values are tagged records: [t |-> "undefined"],              *)
(* [t |-> "null"], [t |-> "string", s |-> ...], [t |-> "boolean", ...],    *)
(* [t |-> "array", a |-> <<...>>], [t |-> "object", f |-> [k |-> v]].      *)
(* JavaScript strings are TLA+ strings.                                    *)
(***************************************************************************)
EXTENDS Integers, Sequences, FiniteSets, TLC

VARIABLES
    handlerVariant,   \* which version of api/chat.ts is deployed
    chatVariant,      \* which version of health_agent.ts is deployed
    OPENAI_API_KEY,   \* process.env.OPENAI_API_KEY ("" when not set)
    request,          \* request[r]: the inbound request (method, body)
    pc,               \* pc[r]: where the handler of request r is
    responses,        \* responses[r]: what was sent through res, in order
    outbound,         \* outbound[r]: the request bodies sent to the provider
    inbound,          \* inbound[r]: what the provider answered, in order
    assistantMessage, \* assistantMessage[r]: initial.choices[0].message
    toolResults,      \* toolResults[r]: the toolResults array of chat
    thrown            \* thrown[r]: the error chat rejected with, if any

vars == <<handlerVariant, chatVariant, OPENAI_API_KEY, request, pc, responses,
          outbound, inbound, assistantMessage, toolResults, thrown>>

config == <<handlerVariant, chatVariant, OPENAI_API_KEY>>

-----------------------------------------------------------------------------
(* Bounds of the model.                                                    *)

\* longest caller history in a request body
MaxHistory == 2
\* most tool calls in one provider response
MaxCalls == 2
\* longest upstream error body, in characters, beyond the 500 kept
MaxOverflow == 1

-----------------------------------------------------------------------------
(* JavaScript values.                                                      *)

Undefined == [t |-> "undefined"]
Null == [t |-> "null"]
Str(s) == [t |-> "string", s |-> s]
Bool(b) == [t |-> "boolean", b |-> b]
Arr(a) == [t |-> "array", a |-> a]
Obj(f) == [t |-> "object", f |-> f]
EmptyFields == [k \in {} |-> Undefined]

Min(a, b) == IF a <= b THEN a ELSE b

\* v == null || v === undefined
Nullish(v) == v.t \in {"undefined", "null"}

\* the condition `v ? ... : ...`
Truthy(v) ==
    CASE v.t \in {"undefined", "null"} -> FALSE
      [] v.t = "string" -> v.s /= ""
      [] v.t = "boolean" -> v.b
      [] OTHER -> TRUE

\* v?.k
Get(v, k) ==
    IF v.t = "object" /\ k \in DOMAIN v.f THEN v.f[k] ELSE Undefined

\* v?.[0]
First(v) ==
    CASE v.t = "array" /\ Len(v.a) > 0 -> v.a[1]
      [] v.t = "string" /\ Len(v.s) > 0 -> Str(SubSeq(v.s, 1, 1))
      [] OTHER -> Undefined

\* a ?? b
Coalesce(a, b) == IF Nullish(a) THEN b ELSE a

\* Array.isArray(v)
IsArray(v) == v.t = "array"

\* s.slice(0, n)
Slice(s, n) == SubSeq(s, 1, Min(n, Len(s)))

\* a string of n characters
RECURSIVE Filler(_)
Filler(n) ==
    IF n = 0 THEN ""
    ELSE IF n % 2 = 1 THEN Filler(n - 1) \o "x"
    ELSE LET h == Filler(n \div 2) IN h \o h

\* String(v), as a template literal `${v}` converts v
RECURSIVE ToStr(_), JoinFrom(_, _)
ToStr(v) ==
    CASE v.t = "string" -> v.s
      [] v.t = "undefined" -> "undefined"
      [] v.t = "null" -> "null"
      [] v.t = "boolean" -> (IF v.b THEN "true" ELSE "false")
      [] v.t = "array" -> JoinFrom(v.a, 1)
      [] v.t = "error" -> "Error: " \o v.message
      [] OTHER -> "[object Object]"
\* Array.prototype.join(","), null and undefined elements giving ""
JoinFrom(a, i) ==
    IF i > Len(a) THEN ""
    ELSE (IF i > 1 THEN "," ELSE "")
         \o (IF Nullish(a[i]) THEN "" ELSE ToStr(a[i])) \o JoinFrom(a, i + 1)

\* a message { role, content }
Msg(role, content) == Obj([role |-> Str(role), content |-> Str(content)])

\* JSON.parse(s) on the texts that occur: [ok |-> TRUE, value |-> v], or
\* [ok |-> FALSE] when JSON.parse throws a SyntaxError
Parsed(v) == [ok |-> TRUE, value |-> v]
SyntaxError == [ok |-> FALSE]
JSONParse(s) ==
    CASE s = "null" -> Parsed(Null)
      [] s = "{}" -> Parsed(Obj(EmptyFields))
      [] s = "{\"userId\":\"u2\"}" -> Parsed(Obj([userId |-> Str("u2")]))
      [] s = "{\"type\":\"pill_taken\"}" -> Parsed(Obj([type |-> Str("pill_taken")]))
      [] s = "{\"reply\":\"hi\"}" -> Parsed(Obj([reply |-> Str("hi")]))
      [] s = "{\"text\":\"hi\"}" -> Parsed(Obj([text |-> Str("hi")]))
      [] s = "{\"choices\":[]}" -> Parsed(Obj([choices |-> Arr(<<>>)]))
      [] s = "{\"choices\":[{\"message\":{\"content\":null}}]}" ->
            Parsed(Obj([choices |-> Arr(<<Obj([message |-> Obj([content |-> Null])])>>)]))
      [] s = "{\"choices\":[{\"message\":{\"content\":\"hi\"}}]}" ->
            Parsed(Obj([choices |-> Arr(<<Obj([message |-> Obj([content |-> Str("hi")])])>>)]))
      [] s = "{\"output_text\":\"hi\"}" -> Parsed(Obj([output_text |-> Str("hi")]))
      [] s = "{\"output\":[{\"content\":[{\"text\":\"hi\"}]}]}" ->
            Parsed(Obj([output |-> Arr(<<Obj([content |-> Arr(<<Obj([text |-> Str("hi")])>>)])>>)]))
      [] s = "{\"messages\":[{\"role\":\"user\",\"content\":\"a\"}]}" ->
            Parsed(Obj([messages |-> Arr(<<Msg("user", "a")>>)]))
      [] OTHER -> SyntaxError

\* the order in which the keys of the objects that are serialized were inserted
KeyOrder ==
    <<"error", "date", "recordedAt", "userId", "type", "note", "medications",
      "name", "dose", "time", "withFood", "asNeeded">>

\* JSON.stringify(v): keys in insertion order, undefined properties left out
RECURSIVE Stringify(_), StringifyItems(_, _), StringifyFields(_, _, _)
Stringify(v) ==
    CASE v.t = "string" -> "\"" \o v.s \o "\""
      [] v.t = "null" -> "null"
      [] v.t = "boolean" -> (IF v.b THEN "true" ELSE "false")
      [] v.t = "array" -> "[" \o StringifyItems(v.a, 1) \o "]"
      [] v.t = "object" -> "{" \o StringifyFields(v.f, 1, TRUE) \o "}"
      [] OTHER -> "null"
StringifyItems(a, i) ==
    IF i > Len(a) THEN ""
    ELSE (IF i > 1 THEN "," ELSE "") \o Stringify(a[i]) \o StringifyItems(a, i + 1)
StringifyFields(f, i, first) ==
    IF i > Len(KeyOrder) THEN ""
    ELSE LET k == KeyOrder[i]
             has == k \in DOMAIN f /\ f[k].t /= "undefined"
         IN  IF has
             THEN (IF first THEN "" ELSE ",") \o "\"" \o k \o "\":"
                  \o Stringify(f[k]) \o StringifyFields(f, i + 1, FALSE)
             ELSE StringifyFields(f, i + 1, first)

-----------------------------------------------------------------------------
(* Module-level constants of the source.                                   *)

\* the system message of the fetch versions of chat
system ==
    Msg("system",
        "You are HopeCoach: a warm, concise wellbeing coach. Be supportive, practical, and non-judgmental.")

\* the system prompt of the tool-calling version (its first sentence; the
\* text is data and no code reads into it)
systemPrompt ==
    "\nYou are HopeCoach, a compassionate, practical AI life-coach for people with\ncancer and their caregivers."

\* the reply when none can be extracted
Fallback == "Sorry, I couldn't generate a response."

\* how much of an upstream body an error message keeps
SliceLimit == 500

\* new Date().toISOString(): the clock is read, its value is not decided here
NowISO == "2024-05-01T08:30:00.000Z"

-----------------------------------------------------------------------------
(* Inputs.                                                                 *)

SeqsUpTo(S, n) == UNION {[1..k -> S] : k \in 0..n}

Messages == {Msg("user", "a"), Msg("assistant", "b")}
Histories == SeqsUpTo(Messages, MaxHistory)

Methods == {"OPTIONS", "GET", "POST"}

Bodies ==
    {Undefined, Str("{bad"), Str("{\"messages\":[{\"role\":\"user\",\"content\":\"a\"}]}"),
     Obj(EmptyFields), Obj([messages |-> Str("hi")])}
    \cup {Obj([messages |-> Arr(h)]) : h \in Histories}

Requests == [method : Methods, body : Bodies]

HandlerVariants == {"api/chat.ts", "part_001"}
ChatVariants == {"completions", "responses", "tools"}
ApiKeys == {"", "sk-test"}

Ids == {1}

Init ==
    /\ handlerVariant \in HandlerVariants
    /\ chatVariant \in ChatVariants
    /\ OPENAI_API_KEY \in ApiKeys
    /\ request \in [Ids -> Requests]
    /\ pc = [r \in Ids |-> "received"]
    /\ responses = [r \in Ids |-> <<>>]
    /\ outbound = [r \in Ids |-> <<>>]
    /\ inbound = [r \in Ids |-> <<>>]
    /\ assistantMessage = [r \in Ids |-> Undefined]
    /\ toolResults = [r \in Ids |-> <<>>]
    /\ thrown = [r \in Ids |-> Undefined]

-----------------------------------------------------------------------------
(* api/chat.ts: the parts of handler that compute.                         *)

\* process.env.CORS_ORIGIN, not set in this deployment
CORS_ORIGIN == ""
ALLOW_ORIGIN == IF CORS_ORIGIN /= "" THEN CORS_ORIGIN ELSE "*"

\* an Error object
Err(msg) == [t |-> "error", message |-> msg]

ExpectedBody == "Expected body: { messages: [{ role, content }, ...] }"

\* api/chat.ts: a string body is parsed, and kept as it is when that throws
ParsedBody(body) ==
    IF body.t = "string" /\ JSONParse(body.s).ok
    THEN JSONParse(body.s).value
    ELSE body

\* the handler's local `messages`: the array, or undefined (api/chat.ts), or
\* whatever the body holds under that key (the earlier version)
HandlerMessages(variant, body) ==
    IF variant = "api/chat.ts"
    THEN LET m == Get(ParsedBody(body), "messages")
         IN  IF IsArray(m) THEN m ELSE Undefined
    ELSE Get(Coalesce(body, Obj(EmptyFields)), "messages")

\* whether the handler goes on to chat(messages)
BodyAccepted(variant, body) ==
    IF variant = "api/chat.ts"
    THEN ~(HandlerMessages(variant, body).t = "undefined")
    ELSE IsArray(HandlerMessages(variant, body))

\* the response of the handler to a body it does not accept
BodyRejection(variant) ==
    IF variant = "api/chat.ts"
    THEN [status |-> 400, origin |-> ALLOW_ORIGIN,
          body |-> Obj([error |-> Str(ExpectedBody)])]
    ELSE [status |-> 500, origin |-> ALLOW_ORIGIN,
          body |-> Obj([error |-> Str(ExpectedBody)])]

\* the catch block: String(err?.message || err), err?.message ?? "Unknown error"
ErrorResponse(variant, err) ==
    [status |-> 500, origin |-> ALLOW_ORIGIN,
     body |-> Obj([error |-> Str(IF variant = "api/chat.ts" /\ err.message = ""
                                  THEN ToStr(err) ELSE err.message)])]

ReplyResponse(reply) ==
    [status |-> 200, origin |-> ALLOW_ORIGIN, body |-> Obj([reply |-> reply])]

PreflightResponse == [status |-> 204, origin |-> ALLOW_ORIGIN, body |-> Undefined]

MethodResponse ==
    [status |-> 405, origin |-> ALLOW_ORIGIN,
     body |-> Obj([error |-> Str("Method not allowed")])]

-----------------------------------------------------------------------------
(* health_agent.ts: the parts of chat that compute.                        *)

Return(v) == [throws |-> FALSE, value |-> v]
Throw(msg) == [throws |-> TRUE, error |-> Err(msg)]

\* the history with the system message put last instead of first
AssembleSystemLast(history) == history \o <<system>>

\* [system, ...history]
Assemble(history) == <<system>> \o history

\* messages.map(m => `${m.role}: ${m.content}`).join("\n\n")
RECURSIVE Flatten(_)
Flatten(messages) ==
    IF messages = <<>> THEN ""
    ELSE LET m == Head(messages)
             line == ToStr(Get(m, "role")) \o ": " \o ToStr(Get(m, "content"))
         IN  IF Len(messages) = 1 THEN line
             ELSE line \o "\n\n" \o Flatten(Tail(messages))

\* the object serialized as the body of the chat-completions request
CompletionsBody(history) ==
    [url |-> "https://api.openai.com/v1/chat/completions",
     model |-> "gpt-4o-mini", messages |-> Assemble(history)]

\* the object serialized as the body of the responses-API request
ResponsesBody(history) ==
    [url |-> "https://api.openai.com/v1/responses",
     model |-> "gpt-3.5-turbo", input |-> Flatten(Assemble(history))]

\* the first two messages of both requests of the tool-calling chat
Opening(userMsg) ==
    <<Obj([role |-> Str("system"), content |-> Str(systemPrompt)]),
      Obj([role |-> Str("user"), content |-> userMsg])>>

\* the argument of the first openai.chat.completions.create
InitialBody(userMsg) ==
    [url |-> "openai.chat.completions.create", model |-> "gpt-3.5-turbo",
     messages |-> Opening(userMsg), tools |-> "toolSchema"]

\* the follow-up request with the tool results in reverse order
FinalBodyReversed(userMsg, assistant, results) ==
    [url |-> "openai.chat.completions.create", model |-> "gpt-4o-mini",
     messages |-> Opening(userMsg) \o <<assistant>>
                  \o [i \in 1..Len(results) |-> results[Len(results) + 1 - i]]]

\* the argument of the second openai.chat.completions.create
FinalBody(userMsg, assistant, results) ==
    [url |-> "openai.chat.completions.create", model |-> "gpt-4o-mini",
     messages |-> Opening(userMsg) \o <<assistant>> \o results]

\* chat over chat-completions, from the fetch response on
CompletionsOutcome(resp) ==
    IF resp.kind = "network_error" THEN Throw("request to api.openai.com failed")
    ELSE IF ~resp.ok
    THEN Throw("OpenAI " \o ToString(resp.status) \o ": " \o Slice(resp.txt, SliceLimit))
    ELSE IF ~JSONParse(resp.txt).ok
    THEN Throw("OpenAI returned non-JSON: " \o Slice(resp.txt, SliceLimit))
    ELSE LET data == JSONParse(resp.txt).value
             content == Get(Get(First(Get(data, "choices")), "message"), "content")
         IN  Return(Obj([role |-> Str("assistant"),
                         content |-> Coalesce(content, Str(Fallback))]))

\* chat over the responses API, from the fetch response on
ResponsesOutcome(resp) ==
    IF resp.kind = "network_error" THEN Throw("request to api.openai.com failed")
    ELSE IF ~resp.ok
    THEN Throw("Provider error: " \o ToString(resp.status) \o " " \o resp.txt)
    ELSE IF ~JSONParse(resp.txt).ok
    THEN Throw("invalid json response body")
    ELSE LET data == JSONParse(resp.txt).value
             text == Get(First(Get(First(Get(data, "output")), "content")), "text")
         IN  Return(Obj([role |-> Str("assistant"),
                         content |-> Coalesce(Get(data, "output_text"),
                                              Coalesce(text, Str(Fallback)))]))

-----------------------------------------------------------------------------
(* The tool-calling chat: the tools and the parts of chat that compute.    *)

TypeErrorMsg == "Cannot read properties of undefined"

\* tools.getMedSchedule(userId)
getMedSchedule(userId) ==
    Obj([date |-> Str(SubSeq(NowISO, 1, 10)),
         userId |-> userId,
         medications |-> Arr(<<
            Obj([name |-> Str("Letrozole"), dose |-> Str("2.5 mg"),
                 time |-> Str("08:00"), withFood |-> Bool(TRUE)]),
            Obj([name |-> Str("Ondansetron"), dose |-> Str("8 mg"),
                 time |-> Str("18:00"), asNeeded |-> Bool(TRUE)])>>)])

\* tools.logEvent(payload): { recordedAt, ...payload }
logEvent(payload) ==
    Obj((IF payload.t = "object" THEN payload.f ELSE EmptyFields)
        @@ [recordedAt |-> Str(NowISO)])

\* call.function.arguments ? JSON.parse(call.function.arguments) : {}
ParseArguments(arguments) ==
    IF Truthy(arguments)
    THEN (IF JSONParse(ToStr(arguments)).ok
          THEN Return(JSONParse(ToStr(arguments)).value)
          ELSE Throw("Unexpected token in JSON"))
    ELSE Return(Obj(EmptyFields))

\* the switch on call.function.name; userId is the second parameter of chat
RunTool(name, args, userId) ==
    CASE name = Str("getMedSchedule") ->
            IF Nullish(args) THEN Throw(TypeErrorMsg)
            ELSE Return(getMedSchedule(IF Truthy(Get(args, "userId"))
                                       THEN Get(args, "userId") ELSE userId))
      [] name = Str("logEvent") -> Return(logEvent(args))
      [] OTHER -> Return(Obj([error |-> Str("Unknown function: " \o ToStr(name))]))

\* the message pushed on toolResults for a call and its result
ToolMessage(call, result) ==
    Obj([tool_call_id |-> Get(call, "id"), role |-> Str("tool"),
         name |-> Get(Get(call, "function"), "name"),
         content |-> Str(Stringify(result))])

\* one iteration of the loop over assistantMessage.tool_calls
DispatchOutcome(call, userId) ==
    LET fn == Get(call, "function")
        args == ParseArguments(Get(fn, "arguments"))
    IN  IF args.throws THEN args
        ELSE LET result == RunTool(Get(fn, "name"), args.value, userId)
             IN  IF result.throws THEN result
                 ELSE Return(ToolMessage(call, result.value))

\* completion.choices[0].message
MessageOutcome(completion) ==
    LET choices == Get(completion, "choices")
    IN  IF Nullish(choices) \/ Nullish(First(choices)) THEN Throw(TypeErrorMsg)
        ELSE Return(Get(First(choices), "message"))

\* assistantMessage.tool_calls?.length
HasToolCalls(message) ==
    /\ Get(message, "tool_calls").t = "array"
    /\ Len(Get(message, "tool_calls").a) > 0

\* JSON.parse(message.content!).reply
ReplyOutcome(message) ==
    IF Nullish(message) THEN Throw(TypeErrorMsg)
    ELSE LET parsed == JSONParse(ToStr(Get(message, "content")))
         IN  IF ~parsed.ok THEN Throw("Unexpected token in JSON")
             ELSE IF Nullish(parsed.value) THEN Throw(TypeErrorMsg)
             ELSE Return(Get(parsed.value, "reply"))

\* what openai.chat.completions.create resolves to or rejects with
CreateOutcome(resp) ==
    IF resp.kind = "error"
    THEN Throw(ToString(resp.status) \o " " \o resp.body)
    ELSE Return(resp.value)

-----------------------------------------------------------------------------
(* What the provider can answer.                                           *)

ErrorStatuses == {429, 500}
BodyLengths == {0, 3, SliceLimit, SliceLimit + MaxOverflow}

SuccessTexts ==
    {"null", "{}", "<html>Bad Gateway</html>", "{\"choices\":[]}",
     "{\"choices\":[{\"message\":{\"content\":null}}]}",
     "{\"choices\":[{\"message\":{\"content\":\"hi\"}}]}",
     "{\"output_text\":\"hi\"}",
     "{\"output\":[{\"content\":[{\"text\":\"hi\"}]}]}"}

\* the outcomes of fetch
FetchResponses ==
    {[kind |-> "network_error"]}
    \cup {[kind |-> "http", ok |-> FALSE, status |-> st, txt |-> Filler(n)] :
            st \in ErrorStatuses, n \in BodyLengths}
    \cup {[kind |-> "http", ok |-> TRUE, status |-> 200, txt |-> t] : t \in SuccessTexts}

\* a tool call as the provider returns it; ids are unique within a response
ToolCall(i, shape) ==
    Obj([id |-> Str("call_" \o ToString(i)), type |-> Str("function"),
         function |-> Obj([name |-> Str(shape[1]), arguments |-> shape[2]])])

CallShapes ==
    {<<"getMedSchedule", Undefined>>,
     <<"getMedSchedule", Str("{\"userId\":\"u2\"}")>>,
     <<"getMedSchedule", Str("null")>>,
     <<"logEvent", Str("{\"type\":\"pill_taken\"}")>>,
     <<"logEvent", Str("{bad")>>,
     <<"lookupWeather", Str("")>>,
     <<"lookupWeather", Str("{}")>>,
     <<"lookupWeather", Str("{bad")>>}

Batches ==
    {[i \in 1..Len(shapes) |-> ToolCall(i, shapes[i])] :
        shapes \in SeqsUpTo(CallShapes, MaxCalls) \ {<<>>}}

Completion(message) == Obj([choices |-> Arr(<<Obj([message |-> message])>>)])

Contents == {Null, Str("{\"reply\":\"hi\"}"), Str("{\"text\":\"hi\"}"), Str("I am here for you")}

\* completions that ask for no tool
PlainCompletions ==
    {Obj([choices |-> Arr(<<>>)])}
    \cup {Completion(Obj([role |-> Str("assistant"), content |-> c])) : c \in Contents}
    \cup {Completion(Obj([role |-> Str("assistant"), content |-> Str("{\"reply\":\"hi\"}"),
                          tool_calls |-> Arr(<<>>)]))}

\* completions that ask for tools
ToolCompletions ==
    {Completion(Obj([role |-> Str("assistant"), content |-> Null, tool_calls |-> Arr(b)])) :
        b \in Batches}

ClientErrors ==
    {[kind |-> "error", status |-> st, body |-> Filler(n)] :
        st \in ErrorStatuses, n \in {3, SliceLimit + MaxOverflow}}

\* the outcomes of openai.chat.completions.create
InitialResponses ==
    ClientErrors \cup {[kind |-> "completion", value |-> c] :
                          c \in PlainCompletions \cup ToolCompletions}
FinalResponses ==
    ClientErrors \cup {[kind |-> "completion", value |-> c] : c \in PlainCompletions}

-----------------------------------------------------------------------------
(* The handler, one action per stretch between two awaits.                 *)

\* res.status(...).json(...) or .end(), after which the handler returns
Respond(r, response) ==
    /\ responses' = [responses EXCEPT ![r] = Append(@, response)]
    /\ pc' = [pc EXCEPT ![r] = "responded"]

\* chat rejects with err, and the catch block of the handler answers
Fail(r, err) ==
    /\ thrown' = [thrown EXCEPT ![r] = err]
    /\ Respond(r, ErrorResponse(handlerVariant, err))

\* the request body recorded for every request in flight, as one list of
\* sent bodies shared by all invocations would have it
SendToAll(r, body) ==
    outbound' = [q \in DOMAIN outbound |-> Append(outbound[q], body)]

\* the request body handed to the provider
Send(r, body) == outbound' = [outbound EXCEPT ![r] = Append(@, body)]

\* what the awaited provider call settled with
Receive(r, resp) == inbound' = [inbound EXCEPT ![r] = Append(@, resp)]

\* the array the handler passes to chat
History(r) == HandlerMessages(handlerVariant, request[r].body)

\* the second argument of chat: the handler passes none
UserId == Undefined

\* OPTIONS
Preflight(r) ==
    /\ pc[r] = "received"
    /\ request[r].method = "OPTIONS"
    /\ Respond(r, PreflightResponse)
    /\ UNCHANGED <<inbound, config, request, outbound, assistantMessage, toolResults, thrown>>

\* any other method than POST
MethodNotAllowed(r) ==
    /\ pc[r] = "received"
    /\ request[r].method \notin {"OPTIONS", "POST"}
    /\ Respond(r, MethodResponse)
    /\ UNCHANGED <<inbound, config, request, outbound, assistantMessage, toolResults, thrown>>

\* POST with a body that holds no messages array
RejectBody(r) ==
    /\ pc[r] = "received"
    /\ request[r].method = "POST"
    /\ ~BodyAccepted(handlerVariant, request[r].body)
    /\ Respond(r, BodyRejection(handlerVariant))
    /\ thrown' = [thrown EXCEPT ![r] =
                    IF handlerVariant = "api/chat.ts" THEN @ ELSE Err(ExpectedBody)]
    /\ UNCHANGED <<inbound, config, request, outbound, assistantMessage, toolResults>>

\* whether this version of chat checks the key before anything else
ChecksKey(variant) == variant = "completions"

\* POST, chat throws because the key is not set
MissingKey(r) ==
    /\ pc[r] = "received"
    /\ request[r].method = "POST"
    /\ BodyAccepted(handlerVariant, request[r].body)
    /\ ChecksKey(chatVariant) /\ OPENAI_API_KEY = ""
    /\ Fail(r, Err("Missing OPENAI_API_KEY in environment."))
    /\ UNCHANGED <<inbound, config, request, outbound, assistantMessage, toolResults>>

\* the first request of chat, by version
FirstBody(variant, messages) ==
    CASE variant = "completions" -> CompletionsBody(messages.a)
      [] variant = "responses" -> ResponsesBody(messages.a)
      [] OTHER -> InitialBody(messages)

\* POST, chat runs up to its first await
SendFirst(r) ==
    /\ pc[r] = "received"
    /\ request[r].method = "POST"
    /\ BodyAccepted(handlerVariant, request[r].body)
    /\ ~(ChecksKey(chatVariant) /\ OPENAI_API_KEY = "")
    /\ Send(r, FirstBody(chatVariant, History(r)))
    /\ pc' = [pc EXCEPT ![r] = IF chatVariant = "tools" THEN "await_initial"
                                ELSE "await_fetch"]
    /\ UNCHANGED <<inbound, config, request, responses, assistantMessage, toolResults, thrown>>

\* the rest of a fetch version of chat, by version
FetchOutcome(variant, resp) ==
    IF variant = "completions" THEN CompletionsOutcome(resp) ELSE ResponsesOutcome(resp)

\* fetch settles: the rest of chat, then the handler answers
FetchReturns(r) ==
    /\ pc[r] = "await_fetch"
    /\ \E resp \in FetchResponses :
         LET out == FetchOutcome(chatVariant, resp)
         IN  /\ Receive(r, resp)
             /\ IF out.throws
                THEN Fail(r, out.error)
                ELSE Respond(r, ReplyResponse(out.value)) /\ UNCHANGED thrown
    /\ UNCHANGED <<config, request, outbound, assistantMessage, toolResults>>

\* assistantMessage.tool_calls of request r
ToolCalls(r) == Get(assistantMessage[r], "tool_calls").a

\* the first create settles: chat up to the first tool, or to its end
InitialReturns(r) ==
    /\ pc[r] = "await_initial"
    /\ \E resp \in InitialResponses :
         LET created == CreateOutcome(resp)
             message == IF created.throws THEN created ELSE MessageOutcome(created.value)
         IN  Receive(r, resp) /\
             IF message.throws
             THEN Fail(r, message.error) /\ UNCHANGED <<assistantMessage, toolResults>>
             ELSE IF Nullish(message.value)
             THEN Fail(r, Err(TypeErrorMsg)) /\ UNCHANGED <<assistantMessage, toolResults>>
             ELSE IF HasToolCalls(message.value)
             THEN /\ assistantMessage' = [assistantMessage EXCEPT ![r] = message.value]
                  /\ toolResults' = [toolResults EXCEPT ![r] = <<>>]
                  /\ pc' = [pc EXCEPT ![r] = "dispatch"]
                  /\ UNCHANGED <<responses, thrown>>
             ELSE LET reply == ReplyOutcome(message.value)
                  IN  /\ IF reply.throws
                         THEN Fail(r, reply.error)
                         ELSE Respond(r, ReplyResponse(reply.value)) /\ UNCHANGED thrown
                      /\ UNCHANGED <<assistantMessage, toolResults>>
    /\ UNCHANGED <<config, request, outbound>>

\* one iteration of the loop over the tool calls; after the last one the
\* second create is issued
Dispatch(r) ==
    /\ pc[r] = "dispatch"
    /\ LET i == Len(toolResults[r]) + 1
           out == DispatchOutcome(ToolCalls(r)[i], UserId)
       IN  IF out.throws
           THEN Fail(r, out.error) /\ UNCHANGED <<toolResults, outbound>>
           ELSE /\ toolResults' = [toolResults EXCEPT ![r] = Append(@, out.value)]
                /\ IF i = Len(ToolCalls(r))
                   THEN /\ Send(r, FinalBody(History(r), assistantMessage[r],
                                             toolResults'[r]))
                        /\ pc' = [pc EXCEPT ![r] = "await_final"]
                   ELSE UNCHANGED <<outbound, pc>>
                /\ UNCHANGED <<responses, thrown>>
    /\ UNCHANGED <<inbound, config, request, assistantMessage>>

\* the second create settles: the rest of chat, then the handler answers
FinalReturns(r) ==
    /\ pc[r] = "await_final"
    /\ \E resp \in FinalResponses :
         LET created == CreateOutcome(resp)
             message == IF created.throws THEN created ELSE MessageOutcome(created.value)
             reply == IF message.throws THEN message ELSE ReplyOutcome(message.value)
         IN  /\ Receive(r, resp)
             /\ IF reply.throws
                THEN Fail(r, reply.error)
                ELSE Respond(r, ReplyResponse(reply.value)) /\ UNCHANGED thrown
    /\ UNCHANGED <<config, request, outbound, assistantMessage, toolResults>>

Next ==
    \/ \E r \in DOMAIN request : Preflight(r)
    \/ \E r \in DOMAIN request : MethodNotAllowed(r)
    \/ \E r \in DOMAIN request : RejectBody(r)
    \/ \E r \in DOMAIN request : MissingKey(r)
    \/ \E r \in DOMAIN request : SendFirst(r)
    \/ \E r \in DOMAIN request : FetchReturns(r)
    \/ \E r \in DOMAIN request : InitialReturns(r)
    \/ \E r \in DOMAIN request : Dispatch(r)
    \/ \E r \in DOMAIN request : FinalReturns(r)

Spec == Init /\ [][Next]_vars

-----------------------------------------------------------------------------
(* Properties.                                                             *)

Reqs == DOMAIN request

\* the one response of a request that was answered
Response(r) == responses[r][1]

\* the text of the lines that follow the system line in a flattened input
RECURSIVE LinesFrom(_, _)
LinesFrom(h, i) ==
    IF i > Len(h) THEN ""
    ELSE "\n\n" \o Get(h[i], "role").s \o ": " \o Get(h[i], "content").s
         \o LinesFrom(h, i + 1)

\* a request body of a fetch version holds the system message first and then
\* the caller's messages, each once and in their order
FetchBodyInOrder(body, h) ==
    IF "messages" \in DOMAIN body
    THEN /\ Len(body.messages) = 1 + Len(h)
         /\ body.messages[1] = system
         /\ \A j \in 1..Len(h) : body.messages[j + 1] = h[j]
    ELSE body.input = "system: " \o Get(system, "content").s \o LinesFrom(h, 1)

\* a request body of the tool-calling version holds the system prompt first,
\* then the caller's message, and after it only assistant and tool messages
ToolBodyInOrder(body, userMsg) ==
    /\ Len(body.messages) >= 2
    /\ body.messages[1] = Obj([role |-> Str("system"), content |-> Str(systemPrompt)])
    /\ body.messages[2] = Obj([role |-> Str("user"), content |-> userMsg])
    /\ \A j \in 3..Len(body.messages) :
         Get(body.messages[j], "role") \in {Str("assistant"), Str("tool")}

\* C1: every request body sent to the provider starts with the fixed system
\* prompt and continues with the caller's messages in their original order,
\* none dropped, reordered or duplicated; in the tool-calling version this
\* holds of the first and of the follow-up call.
SystemPromptFirst ==
    \A r \in Reqs : \A i \in 1..Len(outbound[r]) :
        IF chatVariant = "tools"
        THEN ToolBodyInOrder(outbound[r][i], History(r))
        ELSE FetchBodyInOrder(outbound[r][i], History(r).a)

\* a follow-up call of the tool-calling version was sent for a history of two
SystemPromptFirstWitness ==
    \E r \in Reqs :
        /\ chatVariant = "tools"
        /\ Len(outbound[r]) = 2
        /\ Len(History(r).a) = 2

\* C6: the tool messages of the follow-up request are one per tool call, in
\* the order of the calls, the i-th carrying the id and the name of the i-th
\* call; the results collected so far are always such a prefix.
ToolMessagesMatchCalls ==
    \A r \in Reqs :
        /\ \A i \in 1..Len(toolResults[r]) :
              /\ i <= Len(ToolCalls(r))
              /\ Get(toolResults[r][i], "role") = Str("tool")
              /\ Get(toolResults[r][i], "tool_call_id") = Get(ToolCalls(r)[i], "id")
              /\ Get(toolResults[r][i], "name")
                    = Get(Get(ToolCalls(r)[i], "function"), "name")
        /\ Len(outbound[r]) = 2 =>
              LET sent == outbound[r][2].messages
              IN  /\ Len(sent) = 3 + Len(ToolCalls(r))
                  /\ sent[3] = assistantMessage[r]
                  /\ \A i \in 1..Len(ToolCalls(r)) :
                        /\ Get(sent[3 + i], "role") = Str("tool")
                        /\ Get(sent[3 + i], "tool_call_id") = Get(ToolCalls(r)[i], "id")
                        /\ Get(sent[3 + i], "name")
                              = Get(Get(ToolCalls(r)[i], "function"), "name")

\* a follow-up request was sent for a batch of two calls of different tools
ToolMessagesMatchCallsWitness ==
    \E r \in Reqs :
        /\ Len(outbound[r]) = 2
        /\ Len(ToolCalls(r)) = 2
        /\ Get(Get(ToolCalls(r)[1], "function"), "name")
              /= Get(Get(ToolCalls(r)[2], "function"), "name")

\* the value a request body holds under "messages", a string body being read
\* as the JSON it spells
BodyMessages(body) ==
    IF body.t = "string"
    THEN (IF JSONParse(body.s).ok THEN Get(JSONParse(body.s).value, "messages")
          ELSE Undefined)
    ELSE Get(body, "messages")

\* a body with no array of messages
Malformed(body) == ~IsArray(BodyMessages(body))

HasError(response) ==
    /\ response.body.t = "object"
    /\ "error" \in DOMAIN response.body.f
    /\ response.body.f.error.t = "string"
    /\ response.body.f.error.s /= ""

HasReply(response) ==
    /\ response.body.t = "object"
    /\ "reply" \in DOMAIN response.body.f

\* C2: the handler sends exactly one response and stops, with 204 and no body
\* for OPTIONS, 405 for another method than POST, 400 with an error for a POST
\* with a malformed body, 500 with an error when chat throws and 200 with the
\* reply when chat succeeds.
OneResponsePerCase ==
    \A r \in Reqs :
        /\ pc[r] /= "responded" => responses[r] = <<>>
        /\ pc[r] = "responded" =>
              /\ Len(responses[r]) = 1
              /\ CASE request[r].method = "OPTIONS" ->
                        Response(r).status = 204 /\ Response(r).body = Undefined
                   [] request[r].method /= "POST" -> Response(r).status = 405
                   [] Malformed(request[r].body) ->
                        Response(r).status = 400 /\ HasError(Response(r))
                   [] thrown[r] /= Undefined ->
                        Response(r).status = 500 /\ HasError(Response(r))
                   [] OTHER -> Response(r).status = 200 /\ HasReply(Response(r))

\* the bodies C3 is about: absent, without messages, messages not an array,
\* or an empty array of messages
NoMessages(body) ==
    \/ Malformed(body)
    \/ BodyMessages(body) = Arr(<<>>)

\* C3: a POST whose body is absent, has no messages, has messages that are
\* not an array or has an empty array of messages is answered 400 with an
\* error, and no call to the provider is made for it.
EmptyOrMalformedRejected ==
    \A r \in Reqs :
        (request[r].method = "POST" /\ NoMessages(request[r].body)) =>
            /\ outbound[r] = <<>>
            /\ pc[r] = "responded" =>
                  Response(r).status = 400 /\ HasError(Response(r))

\* C4: while the API key is not configured, no call to the provider is made,
\* and a POST whose body is an object with an array of messages (a request
\* that reaches chat) is answered with the configuration error.
NoKeyNoCall ==
    \A r \in Reqs :
        OPENAI_API_KEY = "" =>
            /\ outbound[r] = <<>>
            /\ (pc[r] = "responded" /\ request[r].method = "POST"
                  /\ IsArray(Get(request[r].body, "messages"))) =>
                  /\ HasError(Response(r))
                  /\ Response(r).body.f.error.s = "Missing OPENAI_API_KEY in environment."

\* whether the first provider response of r asked for tools
AskedForTools(r) == assistantMessage[r] /= Undefined

\* chat of r has ended (the handler answered) after the first provider response
Ended(r) == pc[r] = "responded" /\ inbound[r] /= <<>>

\* C5: once the first response holds a tool call, the run is: first provider
\* call, resolution of every tool call of the batch, follow-up provider call;
\* the follow-up is never sent before all calls are resolved and never
\* skipped; with no tool call exactly one provider call is made.
FollowUpAfterAllTools ==
    \A r \in Reqs :
        chatVariant = "tools" =>
            /\ Len(outbound[r]) = 2 =>
                  /\ AskedForTools(r)
                  /\ Len(toolResults[r]) = Len(ToolCalls(r))
            /\ (Ended(r) /\ AskedForTools(r)) => Len(outbound[r]) = 2
            /\ (Ended(r) /\ ~AskedForTools(r)) => Len(outbound[r]) = 1

CallName(call) == Get(Get(call, "function"), "name")
CallArguments(call) == Get(Get(call, "function"), "arguments")

KnownNames == {Str("getMedSchedule"), Str("logEvent")}

\* the batch holds a call of a known tool and a call of an unknown one
Mixed(calls) ==
    /\ \E i \in 1..Len(calls) : CallName(calls[i]) \in KnownNames
    /\ \E i \in 1..Len(calls) : CallName(calls[i]) \notin KnownNames

StartsWith(s, prefix) ==
    Len(s) >= Len(prefix) /\ SubSeq(s, 1, Len(prefix)) = prefix

\* the content of a tool message is what the call's name asks for
ContentFits(name, content) ==
    CASE name = Str("getMedSchedule") -> StartsWith(content, "{\"date\":\"")
      [] name = Str("logEvent") -> StartsWith(content, "{\"recordedAt\":\"")
      [] OTHER -> content = "{\"error\":\"Unknown function: " \o name.s \o "\"}"

\* C7: for a batch that mixes known and unknown tool names, each known call
\* gets its handler's result, each unknown call gets {error: "Unknown
\* function: <name>"}, the rest of the batch is processed and the request goes
\* on to the follow-up provider call instead of failing.
MixedBatchResolved ==
    \A r \in Reqs :
        (AskedForTools(r) /\ Mixed(ToolCalls(r)) /\ pc[r] /= "dispatch") =>
            /\ Len(outbound[r]) = 2
            /\ Len(toolResults[r]) = Len(ToolCalls(r))
            /\ \A i \in 1..Len(ToolCalls(r)) :
                  ContentFits(CallName(ToolCalls(r)[i]),
                              Get(toolResults[r][i], "content").s)

\* arguments that are absent, empty or not valid JSON
Unusable(arguments) ==
    \/ Nullish(arguments)
    \/ arguments = Str("")
    \/ (arguments.t = "string" /\ ~JSONParse(arguments.s).ok)

\* the dispatch loop of r threw at call i
FailedAt(r, i) ==
    /\ AskedForTools(r)
    /\ pc[r] = "responded"
    /\ Len(outbound[r]) = 1
    /\ Len(toolResults[r]) = i - 1

\* C8: a tool call whose arguments are absent, empty or not valid JSON is
\* resolved with the empty object for arguments and does not throw.
UnusableArgumentsAreEmpty ==
    \A r \in Reqs :
        AskedForTools(r) =>
            \A i \in 1..Len(ToolCalls(r)) :
                Unusable(CallArguments(ToolCalls(r)[i])) =>
                    /\ ~FailedAt(r, i)
                    /\ i <= Len(toolResults[r]) =>
                          Get(toolResults[r][i], "content")
                            = Str(Stringify(RunTool(CallName(ToolCalls(r)[i]),
                                                    Obj(EmptyFields), UserId).value))

\* s occurs in text
Contains(text, s) ==
    \E i \in 1..(Len(text) - Len(s) + 1) : SubSeq(text, i, i + Len(s) - 1) = s

\* the last answer of the provider to r
LastInbound(r) == inbound[r][Len(inbound[r])]

\* C9: when the provider answers a fetch version of chat with a non-success
\* status, the error the handler returns with status 500 holds the status and
\* no more than the first 500 characters of the upstream body.
UpstreamErrorTruncated ==
    \A r \in Reqs :
        (chatVariant /= "tools" /\ Ended(r) /\ LastInbound(r).kind = "http"
           /\ ~LastInbound(r).ok) =>
            LET resp == LastInbound(r)
                text == Response(r).body.f.error.s
            IN  /\ Response(r).status = 500
                /\ thrown[r] /= Undefined
                /\ Contains(thrown[r].message, ToString(resp.status))
                /\ Contains(text, ToString(resp.status))
                /\ Len(resp.txt) > SliceLimit =>
                      ~Contains(text, SubSeq(resp.txt, 1, SliceLimit + 1))

\* a JSON body of a fetch answer from which this version of chat finds no text
NoTextIn(variant, data) ==
    IF variant = "completions"
    THEN Nullish(Get(Get(First(Get(data, "choices")), "message"), "content"))
    ELSE /\ Nullish(Get(data, "output_text"))
         /\ Nullish(Get(First(Get(First(Get(data, "output")), "content")), "text"))

\* a completion of the client with no choice, no content, or a content that
\* is a JSON object without reply
NoReplyIn(completion) ==
    LET content == Get(Get(First(Get(completion, "choices")), "message"), "content")
    IN  \/ Nullish(content)
        \/ /\ content.t = "string"
           /\ JSONParse(content.s).ok
           /\ Nullish(Get(JSONParse(content.s).value, "reply"))

\* the provider answered with success and valid JSON, without a reply in it
Unextractable(variant, resp) ==
    IF variant = "tools"
    THEN resp.kind = "completion" /\ NoReplyIn(resp.value)
    ELSE /\ resp.kind = "http" /\ resp.ok
         /\ JSONParse(resp.txt).ok
         /\ NoTextIn(variant, JSONParse(resp.txt).value)

\* chat of r read the reply out of the last answer: any answer of a fetch
\* version, and in the tool-calling version an answer that asks for no tool
ReplyRead(r) ==
    chatVariant = "tools" => (~AskedForTools(r) \/ Len(inbound[r]) = 2)

\* the text of the reply of a 200 response
ReplyText(variant, response) ==
    IF variant = "tools" THEN Get(response.body, "reply")
    ELSE Get(Get(response.body, "reply"), "content")

\* C10: when the provider answers with success and valid JSON from which no
\* reply can be extracted, chat returns the fixed fallback string and the
\* request succeeds, in the plain-text versions and in the tool-calling one.
FallbackWhenNoReply ==
    \A r \in Reqs :
        (Ended(r) /\ ReplyRead(r) /\ Unextractable(chatVariant, LastInbound(r))) =>
            /\ Response(r).status = 200
            /\ ReplyText(chatVariant, Response(r)) = Str(Fallback)

-----------------------------------------------------------------------------
(* Two requests in flight at once.                                         *)

ConcIds == {1, 2}

ConcRequests ==
    [method : Methods,
     body : {Undefined, Obj([messages |-> Arr(<<>>)]),
             Obj([messages |-> Arr(<<Msg("user", "a")>>)]),
             Obj([messages |-> Arr(<<Msg("user", "a"), Msg("assistant", "b")>>)])}]

\* the provider answers considered while two requests are in flight
ConcBatches ==
    {<<ToolCall(1, <<"getMedSchedule", Undefined>>),
       ToolCall(2, <<"lookupWeather", Str("")>>)>>,
     <<ToolCall(1, <<"logEvent", Str("{bad")>>)>>}

ConcAnswers ==
    {[kind |-> "http", ok |-> FALSE, status |-> 429, txt |-> Filler(3)],
     [kind |-> "http", ok |-> TRUE, status |-> 200, txt |-> "{}"],
     [kind |-> "http", ok |-> TRUE, status |-> 200,
      txt |-> "{\"choices\":[{\"message\":{\"content\":\"hi\"}}]}"],
     [kind |-> "http", ok |-> TRUE, status |-> 200, txt |-> "{\"output_text\":\"hi\"}"],
     [kind |-> "error", status |-> 429, body |-> Filler(3)],
     [kind |-> "completion",
      value |-> Completion(Obj([role |-> Str("assistant"),
                                content |-> Str("{\"reply\":\"hi\"}")]))]}
    \cup {[kind |-> "completion",
           value |-> Completion(Obj([role |-> Str("assistant"), content |-> Null,
                                     tool_calls |-> Arr(b)]))] : b \in ConcBatches}

\* every answer received so far is one of ConcAnswers
Narrow ==
    \A r \in DOMAIN inbound : \A i \in 1..Len(inbound[r]) : inbound[r][i] \in ConcAnswers

ConcInit ==
    /\ handlerVariant \in HandlerVariants
    /\ chatVariant \in ChatVariants
    /\ OPENAI_API_KEY \in ApiKeys
    /\ request \in [ConcIds -> ConcRequests]
    /\ pc = [r \in ConcIds |-> "received"]
    /\ responses = [r \in ConcIds |-> <<>>]
    /\ outbound = [r \in ConcIds |-> <<>>]
    /\ inbound = [r \in ConcIds |-> <<>>]
    /\ assistantMessage = [r \in ConcIds |-> Undefined]
    /\ toolResults = [r \in ConcIds |-> <<>>]
    /\ thrown = [r \in ConcIds |-> Undefined]

\* the steps of the two handlers, interleaved in any order
ConcNext ==
    \/ \E r \in DOMAIN request : Preflight(r)
    \/ \E r \in DOMAIN request : MethodNotAllowed(r)
    \/ \E r \in DOMAIN request : RejectBody(r)
    \/ \E r \in DOMAIN request : MissingKey(r)
    \/ \E r \in DOMAIN request : SendFirst(r)
    \/ \E r \in DOMAIN request : FetchReturns(r) /\ Narrow'
    \/ \E r \in DOMAIN request : InitialReturns(r) /\ Narrow'
    \/ \E r \in DOMAIN request : Dispatch(r)
    \/ \E r \in DOMAIN request : FinalReturns(r) /\ Narrow'

ConcSpec == ConcInit /\ [][ConcNext]_vars

\* a run of one handler invocation on its own
Run(sent, response) == [sent |-> sent, response |-> response]

\* the results of the first n tool calls, or the error the loop stops with
RECURSIVE ResultsAlone(_, _)
ResultsAlone(calls, n) ==
    IF n = 0 THEN Return(<<>>)
    ELSE LET before == ResultsAlone(calls, n - 1)
             this == DispatchOutcome(calls[n], UserId)
         IN  IF before.throws THEN before
             ELSE IF this.throws THEN this
             ELSE Return(Append(before.value, this.value))

\* the response to the reply chat resolves to or the error it rejects with
Answered(hv, out) ==
    IF out.throws THEN ErrorResponse(hv, out.error) ELSE ReplyResponse(out.value)

\* the reply read out of a completion of the client
ReplyAlone(answer) ==
    LET created == CreateOutcome(answer)
        message == IF created.throws THEN created ELSE MessageOutcome(created.value)
    IN  IF message.throws THEN message ELSE ReplyOutcome(message.value)

\* the tool-calling chat on its own, from its first answer on
ToolRunAlone(hv, messages, answers) ==
    LET first == InitialBody(messages)
        created == CreateOutcome(answers[1])
        message == IF created.throws THEN created ELSE MessageOutcome(created.value)
    IN  IF message.throws THEN Run(<<first>>, ErrorResponse(hv, message.error))
        ELSE IF Nullish(message.value)
        THEN Run(<<first>>, ErrorResponse(hv, Err(TypeErrorMsg)))
        ELSE IF ~HasToolCalls(message.value)
        THEN Run(<<first>>, Answered(hv, ReplyOutcome(message.value)))
        ELSE LET calls == Get(message.value, "tool_calls").a
                 results == ResultsAlone(calls, Len(calls))
             IN  IF results.throws
                 THEN Run(<<first>>, ErrorResponse(hv, results.error))
                 ELSE Run(<<first, FinalBody(messages, message.value, results.value)>>,
                          IF Len(answers) < 2 THEN Undefined
                          ELSE Answered(hv, ReplyAlone(answers[2])))

\* what one invocation sends to the provider and answers, run on its own with
\* the handler version hv, the chat version cv and the key, for the request
\* req and the provider answers it has received (response undefined while
\* an answer is awaited)
RunAlone(hv, cv, key, req, answers) ==
    IF req.method = "OPTIONS" THEN Run(<<>>, PreflightResponse)
    ELSE IF req.method /= "POST" THEN Run(<<>>, MethodResponse)
    ELSE IF ~BodyAccepted(hv, req.body) THEN Run(<<>>, BodyRejection(hv))
    ELSE IF ChecksKey(cv) /\ key = ""
    THEN Run(<<>>, ErrorResponse(hv, Err("Missing OPENAI_API_KEY in environment.")))
    ELSE LET messages == HandlerMessages(hv, req.body)
         IN  IF answers = <<>> THEN Run(<<FirstBody(cv, messages)>>, Undefined)
             ELSE IF cv = "tools" THEN ToolRunAlone(hv, messages, answers)
             ELSE Run(<<FirstBody(cv, messages)>>,
                      Answered(hv, FetchOutcome(cv, answers[1])))

IsPrefix(a, b) == Len(a) <= Len(b) /\ a = SubSeq(b, 1, Len(a))

\* request r has sent and answered what it would have on its own
SameAsAlone(r) ==
    LET alone == RunAlone(handlerVariant, chatVariant, OPENAI_API_KEY,
                          request[r], inbound[r])
    IN  /\ IsPrefix(outbound[r], alone.sent)
        /\ pc[r] = "responded" =>
              /\ responses[r] = <<alone.response>>
              /\ outbound[r] = alone.sent
        /\ pc[r] /= "responded" => responses[r] = <<>>

\* everything the invocation for request r holds
Local(r) ==
    <<request[r], pc[r], responses[r], outbound[r], inbound[r],
      assistantMessage[r], toolResults[r], thrown[r]>>

\* a step leaves the module-level state and the requests as they are, and
\* touches what at most one invocation holds
Isolated ==
    /\ config' = config
    /\ request' = request
    /\ \E r \in Reqs : \A q \in Reqs \ {r} : Local(q)' = Local(q)

\* C11: with two requests in flight, under any interleaving of their steps,
\* each request sends to the provider and answers what it would have on its
\* own; no step of one changes what the other holds, and the module-level
\* state is never modified.
RequestsIndependent ==
    /\ [](\A r \in Reqs : SameAsAlone(r))
    /\ [][Isolated]_vars

\* request 1 was answered 200 after its follow-up call while request 2, with
\* another body, is in the middle of its batch of tool calls
RequestsIndependentWitness ==
    /\ Reqs = ConcIds
    /\ request[1] /= request[2]
    /\ pc[1] = "responded" /\ Len(outbound[1]) = 2 /\ Response(1).status = 200
    /\ pc[2] = "dispatch" /\ Len(toolResults[2]) = 1

====
